---- MODULE Spec2Model ----
(***************************************************************************)
(* fiber-rate-limiter: the four rate limiting strategies (fixed window,    *)
(* sliding window, token bucket, leaky bucket) and their per-client state  *)
(* maps, called by concurrent goroutines.                                  *)
(*                                                                         *)
(* Time is counted in ticks of the monotonic clock.  Every method reads    *)
(* the clock first (now := time.Now()) and only then takes the strategy's  *)
(* mutex, so a caller is modelled in two steps: Invoke (the clock read)    *)
(* and the critical section (one atomic action, as the mutex makes it).    *)
(* The clock may advance, and other callers may run, between the two.      *)
(*                                                                         *)
(* float64 amounts (tokens, queued requests) are fixed-point integers in   *)
(* units of 1/Scale; rates are units per tick.  float64 rounding is not    *)
(* modelled.                                                               *)
(*                                                                         *)
(* Spec runs any of the four strategies with two clients.  SpecBurst is a  *)
(* longer run of one FixedWindow client, SpecRefill a longer run of one    *)
(* TokenBucket client, SpecLeak a LeakyBucket with its RetryAfter, which   *)
(* is not in the strategy's source file and is written from the            *)
(* specification.  SpecWindows runs the two window strategies, SpecSeq     *)
(* any strategy with one call in flight, SpecRollover one FixedWindow      *)
(* client over three windows in a row.  Every IsRequestAllowed call is     *)
(* made for a request that goes through RateLimitingMiddleware.            *)
(*                                                                         *)
(* The parameters of an instance are exported fields of its struct: the    *)
(* caller holding the instance can assign them at any time, without the   *)
(* mutex: between two calls (SetField) or between two reads of a field    *)
(* that one critical section makes (seen).                                 *)
(* The properties below are stated for an instance whose fields are those  *)
(* its constructor set (Unwritten).  After Limit is written to 0,          *)
(* SlidingWindow's RetryAfter can index an empty slice: the panic ends     *)
(* the program.                                                            *)
(***************************************************************************)
EXTENDS Integers, Sequences, FiniteSets, Bags

\* ---- bounds of the model -------------------------------------------------
\* the clock runs from 0 to MaxTime ticks
MaxTime == 2
\* operations made on the instance in one run: calls, over all clients,
\* and writes to its exported fields
MaxCalls == 3
\* Limit ranges over 0..MaxLimit requests
MaxLimit == 2
\* WindowSize ranges over 1..MaxWindow ticks
MaxWindow == 2
\* BucketSize ranges over 1..MaxBucket requests
MaxBucket == 2
\* RefillRate and LeakRate range over 0..MaxRate units of 1/Scale per tick
MaxRate == 1
\* one token, or one queued request, is Scale fixed-point units
Scale == 2

Clients == {"userA", "userB"}
\* the goroutines that call the strategy concurrently
Goroutines == {"g1", "g2"}
Ops == {"IsRequestAllowed", "RetryAfter"}

VARIABLES
    strategy,   \* the strategy instance's kind and its parameters, the
                \* exported fields of the struct
    clients,    \* strategy.clients: map clientId -> per-client state
    clock,      \* the monotonic clock
    pending,    \* bag of the calls in flight: goroutines that have read the
                \* clock and wait for the mutex
    hist,       \* history: per client, the completed calls in lock order
    shadow,     \* history: the clients map of the same run of
                \* IsRequestAllowed calls with every RetryAfter call left out
    admitted,   \* history: per client, the bag of the instants (the now of
                \* the call) of its admitted requests
    done,       \* history: the number of completed calls
    writes,     \* history: the number of writes to the exported fields
                \* of the instance since its construction
    panicked    \* a goroutine panicked: the program has ended

vars ==
    <<strategy, clients, clock, pending, hist, shadow, admitted, done, writes,
      panicked>>

\* ---- helpers -------------------------------------------------------------
Min(a, b) == IF a <= b THEN a ELSE b

Max(a, b) == IF a >= b THEN a ELSE b

\* m[k] = v on a Go map
Put(m, k, v) == [x \in (DOMAIN m) \cup {k} |-> IF x = k THEN v ELSE m[x]]

EmptyMap == [x \in {} |-> 0]

\* the client's entry of the map, or nothing
Record(m, c) == IF c \in DOMAIN m THEN <<m[c]>> ELSE <<>>

\* ---- the exported fields, as a critical section reads them -------------
\* seen lists the instance (its kind and exported fields) at the successive
\* reads of a field that a critical section makes: seen[i] is what its i-th
\* read finds; a read after the last listed finds what the last one found.
\* The fields are written without the mutex, so a write can land between
\* two reads of one section.
At(seen, i) == IF i <= Len(seen) THEN seen[i] ELSE seen[Len(seen)]

\* no write lands inside the section: every read finds the fields as they
\* are
Still == <<strategy>>

\* ---- FixedWindowStrategy -------------------------------------------------
\* FixedWindow.IsRequestAllowed comparing the count with <= Limit
FixedWindow_IsRequestAllowed_OffByOne(seen, m, clientId, now) ==
    LET state0 == IF clientId \in DOMAIN m
                  THEN m[clientId]
                  ELSE [WindowStart |-> now, RequestCount |-> 0]
        state1 == IF now > state0.WindowStart + At(seen, 1).WindowSize
                  THEN [WindowStart |-> now, RequestCount |-> 0]
                  ELSE state0
    IN IF state1.RequestCount <= At(seen, 2).Limit
       THEN [clients |-> Put(m, clientId,
                             [state1 EXCEPT !.RequestCount = @ + 1]),
             ret |-> TRUE]
       ELSE [clients |-> Put(m, clientId, state1), ret |-> FALSE]

\* FixedWindow.IsRequestAllowed keeping one state for all the clients
FixedWindow_IsRequestAllowed_SharedState(seen, m, clientId, now) ==
    LET state0 == IF clientId \in DOMAIN m
                  THEN m[clientId]
                  ELSE [WindowStart |-> now, RequestCount |-> 0]
        state1 == IF now > state0.WindowStart + At(seen, 1).WindowSize
                  THEN [WindowStart |-> now, RequestCount |-> 0]
                  ELSE state0
        ok == state1.RequestCount < At(seen, 2).Limit
        state2 == IF ok THEN [state1 EXCEPT !.RequestCount = @ + 1]
                  ELSE state1
    IN [clients |-> [x \in (DOMAIN m) \cup {clientId} |-> state2],
        ret |-> ok]

\* FixedWindow.IsRequestAllowed restarting the window without resetting
\* the count
FixedWindow_IsRequestAllowed_NoCountReset(seen, m, clientId, now) ==
    LET state0 == IF clientId \in DOMAIN m
                  THEN m[clientId]
                  ELSE [WindowStart |-> now, RequestCount |-> 0]
        state1 == IF now > state0.WindowStart + At(seen, 1).WindowSize
                  THEN [state0 EXCEPT !.WindowStart = now]
                  ELSE state0
    IN IF state1.RequestCount < At(seen, 2).Limit
       THEN [clients |-> Put(m, clientId,
                             [state1 EXCEPT !.RequestCount = @ + 1]),
             ret |-> TRUE]
       ELSE [clients |-> Put(m, clientId, state1), ret |-> FALSE]

\* the critical section of FixedWindowStrategy.IsRequestAllowed
FixedWindow_IsRequestAllowed(seen, m, clientId, now) ==
    LET state0 == IF clientId \in DOMAIN m
                  THEN m[clientId]
                  ELSE [WindowStart |-> now, RequestCount |-> 0]
        state1 == IF now > state0.WindowStart + At(seen, 1).WindowSize
                  THEN [WindowStart |-> now, RequestCount |-> 0]
                  ELSE state0
    IN IF state1.RequestCount < At(seen, 2).Limit
       THEN [clients |-> Put(m, clientId,
                             [state1 EXCEPT !.RequestCount = @ + 1]),
             ret |-> TRUE]
       ELSE [clients |-> Put(m, clientId, state1), ret |-> FALSE]

\* FixedWindow.RetryAfter without the test for an elapsed window
FixedWindow_RetryAfter_NoElapsedTest(seen, m, clientId, now) ==
    IF clientId \notin DOMAIN m
    THEN [clients |-> m, ret |-> 0]
    ELSE LET windowEnd == m[clientId].WindowStart + At(seen, 1).WindowSize
         IN [clients |-> m, ret |-> windowEnd - now]

\* the critical section of FixedWindowStrategy.RetryAfter
FixedWindow_RetryAfter(seen, m, clientId, now) ==
    IF clientId \notin DOMAIN m
    THEN [clients |-> m, ret |-> 0]
    ELSE LET windowEnd == m[clientId].WindowStart + At(seen, 1).WindowSize
         IN IF now > windowEnd
            THEN [clients |-> m, ret |-> 0]
            ELSE [clients |-> m, ret |-> windowEnd - now]

\* ---- SlidingWindowStrategy -----------------------------------------------
\* the filter loop: keep t when now.Sub(t) < WindowSize, in order; the
\* i-th iteration is the section's i-th read of WindowSize
Filter(seen, timestamps, now) ==
    LET RECURSIVE Loop(_)
        Loop(i) ==
            IF i > Len(timestamps)
            THEN <<>>
            ELSE LET t == timestamps[i]
                     rest == Loop(i + 1)
                 IN IF now - t < At(seen, i).WindowSize
                    THEN <<t>> \o rest
                    ELSE rest
    IN Loop(1)

\* SlidingWindow.IsRequestAllowed comparing the count with <= Limit
SlidingWindow_IsRequestAllowed_OffByOne(seen, m, clientId, now) ==
    LET timestamps == IF clientId \in DOMAIN m THEN m[clientId] ELSE <<>>
        filtered == Filter(seen, timestamps, now)
    IN IF Len(filtered) <= At(seen, Len(timestamps) + 1).Limit
       THEN [clients |-> Put(m, clientId, Append(filtered, now)),
             ret |-> TRUE]
       ELSE [clients |-> Put(m, clientId, filtered), ret |-> FALSE]

\* the critical section of SlidingWindowStrategy.IsRequestAllowed
SlidingWindow_IsRequestAllowed(seen, m, clientId, now) ==
    LET timestamps == IF clientId \in DOMAIN m THEN m[clientId] ELSE <<>>
        filtered == Filter(seen, timestamps, now)
    IN IF Len(filtered) < At(seen, Len(timestamps) + 1).Limit
       THEN [clients |-> Put(m, clientId, Append(filtered, now)),
             ret |-> TRUE]
       ELSE [clients |-> Put(m, clientId, filtered), ret |-> FALSE]

\* oldest := filtered[0] on an empty slice: the call ends in a run-time
\* panic and returns nothing; the list stored before it stays stored
IndexOutOfRange(m) ==
    [clients |-> m, panic |-> "index out of range [0] with length 0"]

\* SlidingWindow.RetryAfter storing a list for every client id it is asked
SlidingWindow_RetryAfter_StoresAlways(seen, m, clientId, now) ==
    LET timestamps == IF clientId \in DOMAIN m THEN m[clientId] ELSE <<>>
        filtered == Filter(seen, timestamps, now)
    IN IF Len(timestamps) = 0
       THEN [clients |-> Put(m, clientId, <<>>), ret |-> 0]
       ELSE IF Len(filtered) < At(seen, Len(timestamps) + 1).Limit
            THEN [clients |-> Put(m, clientId, filtered), ret |-> 0]
            ELSE IF Len(filtered) = 0
                 THEN IndexOutOfRange(Put(m, clientId, filtered))
                 ELSE LET windowSize ==
                              At(seen, Len(timestamps) + 2).WindowSize
                          wait == (filtered[1] + windowSize) - now
                      IN [clients |-> Put(m, clientId, filtered),
                          ret |-> IF wait < 0 THEN 0 ELSE wait]

\* the critical section of SlidingWindowStrategy.RetryAfter; filtered is
\* empty with Len(filtered) >= Limit only after Limit was written to 0
SlidingWindow_RetryAfter(seen, m, clientId, now) ==
    LET timestamps == IF clientId \in DOMAIN m THEN m[clientId] ELSE <<>>
        filtered == Filter(seen, timestamps, now)
    IN IF Len(timestamps) = 0
       THEN [clients |-> m, ret |-> 0]
       ELSE IF Len(filtered) < At(seen, Len(timestamps) + 1).Limit
            THEN [clients |-> Put(m, clientId, filtered), ret |-> 0]
            ELSE IF Len(filtered) = 0
                 THEN IndexOutOfRange(Put(m, clientId, filtered))
                 ELSE LET windowSize ==
                              At(seen, Len(timestamps) + 2).WindowSize
                          wait == (filtered[1] + windowSize) - now
                      IN [clients |-> Put(m, clientId, filtered),
                          ret |-> IF wait < 0 THEN 0 ELSE wait]

\* ---- TokenBucketStrategy -------------------------------------------------
\* TokenBucket.IsRequestAllowed asking for more than one token: Tokens > 1
TokenBucket_IsRequestAllowed_MoreThanOne(seen, m, clientId, now) ==
    LET state0 == IF clientId \in DOMAIN m
                  THEN m[clientId]
                  ELSE [Tokens |-> At(seen, 1).BucketSize, LastRefill |-> now]
        first == IF clientId \in DOMAIN m THEN 1 ELSE 2
        refillRate == At(seen, first + 1).RefillRate
        elapsed == now - state0.LastRefill
        state1 == [Tokens |-> Min(At(seen, first).BucketSize,
                                  state0.Tokens + elapsed * refillRate),
                   LastRefill |-> now]
    IN IF state1.Tokens > Scale
       THEN [clients |-> Put(m, clientId,
                             [state1 EXCEPT !.Tokens = @ - Scale]),
             ret |-> TRUE]
       ELSE [clients |-> Put(m, clientId, state1), ret |-> FALSE]

\* TokenBucket.IsRequestAllowed without state.LastRefill = now
TokenBucket_IsRequestAllowed_KeepsLastRefill(seen, m, clientId, now) ==
    LET state0 == IF clientId \in DOMAIN m
                  THEN m[clientId]
                  ELSE [Tokens |-> At(seen, 1).BucketSize, LastRefill |-> now]
        first == IF clientId \in DOMAIN m THEN 1 ELSE 2
        refillRate == At(seen, first + 1).RefillRate
        elapsed == now - state0.LastRefill
        state1 == [state0 EXCEPT !.Tokens =
                       Min(At(seen, first).BucketSize,
                           state0.Tokens + elapsed * refillRate)]
    IN IF state1.Tokens >= Scale
       THEN [clients |-> Put(m, clientId,
                             [state1 EXCEPT !.Tokens = @ - Scale]),
             ret |-> TRUE]
       ELSE [clients |-> Put(m, clientId, state1), ret |-> FALSE]

\* TokenBucket.IsRequestAllowed that, when it denies, sets LastRefill but
\* keeps the tokens it found
TokenBucket_IsRequestAllowed_DeniedLosesRefill(seen, m, clientId, now) ==
    LET state0 == IF clientId \in DOMAIN m
                  THEN m[clientId]
                  ELSE [Tokens |-> At(seen, 1).BucketSize, LastRefill |-> now]
        first == IF clientId \in DOMAIN m THEN 1 ELSE 2
        refillRate == At(seen, first + 1).RefillRate
        elapsed == now - state0.LastRefill
        state1 == [Tokens |-> Min(At(seen, first).BucketSize,
                                  state0.Tokens + elapsed * refillRate),
                   LastRefill |-> now]
    IN IF state1.Tokens >= Scale
       THEN [clients |-> Put(m, clientId,
                             [state1 EXCEPT !.Tokens = @ - Scale]),
             ret |-> TRUE]
       ELSE [clients |-> Put(m, clientId,
                             [state1 EXCEPT !.Tokens = state0.Tokens]),
             ret |-> FALSE]

\* the critical section of TokenBucketStrategy.IsRequestAllowed
TokenBucket_IsRequestAllowed(seen, m, clientId, now) ==
    LET state0 == IF clientId \in DOMAIN m
                  THEN m[clientId]
                  ELSE [Tokens |-> At(seen, 1).BucketSize, LastRefill |-> now]
        first == IF clientId \in DOMAIN m THEN 1 ELSE 2
        refillRate == At(seen, first + 1).RefillRate
        elapsed == now - state0.LastRefill
        state1 == [Tokens |-> Min(At(seen, first).BucketSize,
                                  state0.Tokens + elapsed * refillRate),
                   LastRefill |-> now]
    IN IF state1.Tokens >= Scale
       THEN [clients |-> Put(m, clientId,
                             [state1 EXCEPT !.Tokens = @ - Scale]),
             ret |-> TRUE]
       ELSE [clients |-> Put(m, clientId, state1), ret |-> FALSE]

\* ---- LeakyBucketStrategy -------------------------------------------------
\* LeakyBucket.IsRequestAllowed comparing the queue with <= BucketSize
LeakyBucket_IsRequestAllowed_OffByOne(seen, m, clientId, now) ==
    LET state0 == IF clientId \in DOMAIN m
                  THEN m[clientId]
                  ELSE [QueuedRequests |-> 0, LastLeak |-> now]
        elapsed == now - state0.LastLeak
        leaked == elapsed * At(seen, 1).LeakRate
        state1 == [QueuedRequests |-> Max(0, state0.QueuedRequests - leaked),
                   LastLeak |-> now]
    IN IF state1.QueuedRequests <= At(seen, 2).BucketSize
       THEN [clients |-> Put(m, clientId,
                             [state1 EXCEPT !.QueuedRequests = @ + Scale]),
             ret |-> TRUE]
       ELSE [clients |-> Put(m, clientId, state1), ret |-> FALSE]

\* LeakyBucket.IsRequestAllowed leaking one unit per tick more than LeakRate
LeakyBucket_IsRequestAllowed_LeaksMore(seen, m, clientId, now) ==
    LET state0 == IF clientId \in DOMAIN m
                  THEN m[clientId]
                  ELSE [QueuedRequests |-> 0, LastLeak |-> now]
        elapsed == now - state0.LastLeak
        leaked == elapsed * (At(seen, 1).LeakRate + 1)
        state1 == [QueuedRequests |-> Max(0, state0.QueuedRequests - leaked),
                   LastLeak |-> now]
    IN IF state1.QueuedRequests < At(seen, 2).BucketSize
       THEN [clients |-> Put(m, clientId,
                             [state1 EXCEPT !.QueuedRequests = @ + Scale]),
             ret |-> TRUE]
       ELSE [clients |-> Put(m, clientId, state1), ret |-> FALSE]

\* LeakyBucket.IsRequestAllowed setting LastLeak only when it admits
LeakyBucket_IsRequestAllowed_KeepsLastLeak(seen, m, clientId, now) ==
    LET state0 == IF clientId \in DOMAIN m
                  THEN m[clientId]
                  ELSE [QueuedRequests |-> 0, LastLeak |-> now]
        elapsed == now - state0.LastLeak
        leaked == elapsed * At(seen, 1).LeakRate
        state1 == [QueuedRequests |-> Max(0, state0.QueuedRequests - leaked),
                   LastLeak |-> now]
    IN IF state1.QueuedRequests < At(seen, 2).BucketSize
       THEN [clients |-> Put(m, clientId,
                             [state1 EXCEPT !.QueuedRequests = @ + Scale]),
             ret |-> TRUE]
       ELSE [clients |-> Put(m, clientId,
                             [state1 EXCEPT !.LastLeak = state0.LastLeak]),
             ret |-> FALSE]

\* the critical section of LeakyBucketStrategy.IsRequestAllowed
LeakyBucket_IsRequestAllowed(seen, m, clientId, now) ==
    LET state0 == IF clientId \in DOMAIN m
                  THEN m[clientId]
                  ELSE [QueuedRequests |-> 0, LastLeak |-> now]
        elapsed == now - state0.LastLeak
        leaked == elapsed * At(seen, 1).LeakRate
        state1 == [QueuedRequests |-> Max(0, state0.QueuedRequests - leaked),
                   LastLeak |-> now]
    IN IF state1.QueuedRequests < At(seen, 2).BucketSize
       THEN [clients |-> Put(m, clientId,
                             [state1 EXCEPT !.QueuedRequests = @ + Scale]),
             ret |-> TRUE]
       ELSE [clients |-> Put(m, clientId, state1), ret |-> FALSE]

\* a / b rounded up, b > 0: a duration in whole ticks
CeilDiv(a, b) == (a + b - 1) \div b

\* the duration RetryAfter returns when no wait is long enough
Unbounded == 1000000

\* LeakyBucket.RetryAfter answering from the stored queue, without the
\* leak since LastLeak
LeakyBucket_RetryAfter_NoLeak(seen, m, clientId, now) ==
    IF clientId \notin DOMAIN m
    THEN [clients |-> m, ret |-> 0]
    ELSE LET queued == m[clientId].QueuedRequests
         IN IF queued < At(seen, 2).BucketSize
            THEN [clients |-> m, ret |-> 0]
            ELSE IF At(seen, 1).LeakRate > 0
                 THEN [clients |-> m,
                       ret |-> CeilDiv(queued - At(seen, 2).BucketSize + Scale,
                                       At(seen, 1).LeakRate)]
                 ELSE [clients |-> m, ret |-> Unbounded]

\* LeakyBucketStrategy.RetryAfter, as the specification describes it: 0 for
\* a client never seen; after the leak since LastLeak, 0 if queued <
\* BucketSize, else (queued - BucketSize + 1) / LeakRate, unbounded when
\* LeakRate = 0.  The record is left as it is.
LeakyBucket_RetryAfter(seen, m, clientId, now) ==
    IF clientId \notin DOMAIN m
    THEN [clients |-> m, ret |-> 0]
    ELSE LET elapsed == now - m[clientId].LastLeak
             leaked == elapsed * At(seen, 1).LeakRate
             queued == Max(0, m[clientId].QueuedRequests - leaked)
         IN IF queued < At(seen, 2).BucketSize
            THEN [clients |-> m, ret |-> 0]
            ELSE IF At(seen, 1).LeakRate > 0
                 THEN [clients |-> m,
                       ret |-> CeilDiv(queued - At(seen, 2).BucketSize + Scale,
                                       At(seen, 1).LeakRate)]
                 ELSE [clients |-> m, ret |-> Unbounded]

\* ---- the strategy interface ----------------------------------------------
\* RateLimitStrategy.IsRequestAllowed, dispatched on the instance's kind
IsRequestAllowed(seen, m, clientId, now) ==
    CASE strategy.kind = "FixedWindow" ->
             FixedWindow_IsRequestAllowed(seen, m, clientId, now)
      [] strategy.kind = "SlidingWindow" ->
             SlidingWindow_IsRequestAllowed(seen, m, clientId, now)
      [] strategy.kind = "TokenBucket" ->
             TokenBucket_IsRequestAllowed(seen, m, clientId, now)
      [] strategy.kind = "LeakyBucket" ->
             LeakyBucket_IsRequestAllowed(seen, m, clientId, now)

\* RateLimitStrategy.RetryAfter, for the strategies that define it
RetryAfter(seen, m, clientId, now) ==
    CASE strategy.kind = "FixedWindow" ->
             FixedWindow_RetryAfter(seen, m, clientId, now)
      [] strategy.kind = "SlidingWindow" ->
             SlidingWindow_RetryAfter(seen, m, clientId, now)
      [] strategy.kind = "LeakyBucket" ->
             LeakyBucket_RetryAfter(seen, m, clientId, now)

\* the call did not return: it panicked
Panics(r) == "panic" \in DOMAIN r

\* the strategies whose RetryAfter is in the source
HasRetryAfter == strategy.kind \in {"FixedWindow", "SlidingWindow"}

\* ---- the middleware -------------------------------------------------------
StatusOK == 200
StatusTooManyRequests == 429

\* the middleware calling c.Next() whatever the strategy answers
RateLimitingMiddleware_AlwaysNext(seen, m, clientId, now) ==
    LET r == IsRequestAllowed(seen, m, clientId, now)
    IN [clients |-> r.clients, status |-> StatusOK, next |-> 1,
        retryAfter |-> <<>>]

\* the handler RateLimitingMiddleware returns, for a request of clientId:
\* the status of the response, the number of runs of the next handler
\* (which answers 200) and the Retry-After header, <<>> when not set
RateLimitingMiddleware(seen, m, clientId, now) ==
    LET r == IsRequestAllowed(seen, m, clientId, now)
    IN IF ~r.ret
       THEN [clients |-> r.clients, status |-> StatusTooManyRequests,
             next |-> 0, retryAfter |-> <<>>]
       ELSE [clients |-> r.clients, status |-> StatusOK, next |-> 1,
             retryAfter |-> <<>>]

\* ---- constructors --------------------------------------------------------
NewFixedWindowStrategy(limit, windowSize) ==
    [kind |-> "FixedWindow", Limit |-> limit, WindowSize |-> windowSize]

NewSlidingWindowStrategy(limit, windowSize) ==
    [kind |-> "SlidingWindow", Limit |-> limit, WindowSize |-> windowSize]

NewTokenBucketStrategy(refillRate, bucketSize) ==
    [kind |-> "TokenBucket", RefillRate |-> refillRate,
     BucketSize |-> bucketSize]

NewLeakyBucketStrategy(leakRate, bucketSize) ==
    [kind |-> "LeakyBucket", LeakRate |-> leakRate, BucketSize |-> bucketSize]

Strategies ==
    {NewFixedWindowStrategy(l, w) : l \in 0..MaxLimit, w \in 1..MaxWindow}
    \cup {NewSlidingWindowStrategy(l, w) : l \in 0..MaxLimit, w \in 1..MaxWindow}
    \cup {NewTokenBucketStrategy(r, b * Scale) : r \in 0..MaxRate, b \in 1..MaxBucket}
    \cup {NewLeakyBucketStrategy(r, b * Scale) : r \in 0..MaxRate, b \in 1..MaxBucket}

\* ---- history -------------------------------------------------------------
\* did the IsRequestAllowed call roll the window over, expire a timestamp,
\* refill or leak anything of the client, with the field values it read?
Moved(seen, m, clientId, now) ==
    CASE strategy.kind = "FixedWindow" ->
             /\ clientId \in DOMAIN m
             /\ now > m[clientId].WindowStart + At(seen, 1).WindowSize
      [] strategy.kind = "SlidingWindow" ->
             /\ clientId \in DOMAIN m
             /\ Filter(seen, m[clientId], now) # m[clientId]
      [] strategy.kind = "TokenBucket" ->
             \* a new client's record is made with the BucketSize of the
             \* first read; the refill reads BucketSize again
             LET state0 == IF clientId \in DOMAIN m
                           THEN m[clientId]
                           ELSE [Tokens |-> At(seen, 1).BucketSize,
                                 LastRefill |-> now]
                 first == IF clientId \in DOMAIN m THEN 1 ELSE 2
             IN Min(At(seen, first).BucketSize,
                    state0.Tokens
                      + (now - state0.LastRefill)
                          * At(seen, first + 1).RefillRate)
                  # state0.Tokens
      [] strategy.kind = "LeakyBucket" ->
             /\ clientId \in DOMAIN m
             /\ Max(0, m[clientId].QueuedRequests
                         - (now - m[clientId].LastLeak) * At(seen, 1).LeakRate)
                  # m[clientId].QueuedRequests

\* the window start the call is judged against (FixedWindow)
WindowStartSeen(m, clientId, now) ==
    IF strategy.kind = "FixedWindow" /\ clientId \in DOMAIN m
    THEN m[clientId].WindowStart
    ELSE now

\* the operations made on the instance so far: calls completed or in
\* flight, and field writes
TotalCalls == done + writes + BagCardinality(pending)

\* ---- the state machine ---------------------------------------------------
\* a fresh instance of one of the strategies: no client seen, no call made
InitOf(strategies) ==
    /\ strategy \in strategies
    /\ clients = EmptyMap
    /\ clock = 0
    /\ pending = EmptyBag
    /\ hist = [c \in Clients |-> <<>>]
    /\ shadow = EmptyMap
    /\ admitted = [c \in Clients |-> EmptyBag]
    /\ done = 0
    /\ writes = 0
    /\ panicked = FALSE

Init == InitOf(Strategies)

\* time passes, up to maxTime
TickTo(maxTime) ==
    /\ ~panicked
    /\ clock < maxTime
    /\ clock' = clock + 1
    /\ UNCHANGED <<strategy, clients, pending, hist, shadow, admitted, done,
                   writes, panicked>>

Tick == TickTo(MaxTime)

\* a goroutine enters a method: now := time.Now(), before the lock; at most
\* goroutines calls are in flight and maxCalls operations are made
InvokeBy(op, clientId, goroutines, maxCalls) ==
    /\ ~panicked
    /\ BagCardinality(pending) < goroutines
    /\ TotalCalls < maxCalls
    /\ pending' = pending (+) SetToBag({[op |-> op, clientId |-> clientId,
                                         now |-> clock]})
    /\ UNCHANGED <<strategy, clients, clock, hist, shadow, admitted, done,
                   writes, panicked>>

Invoke(op, clientId) ==
    /\ op = "RetryAfter" => HasRetryAfter
    /\ InvokeBy(op, clientId, Cardinality(Goroutines), MaxCalls)

Return(call) == pending (-) SetToBag({call})

\* the exported fields that the critical section of the call reads, in the
\* order of its reads
ReadFields(op, m, clientId) ==
    CASE strategy.kind = "FixedWindow" ->
             IF op = "IsRequestAllowed"
             THEN <<"WindowSize", "Limit">>
             ELSE <<"WindowSize">>
      [] strategy.kind = "SlidingWindow" ->
             LET n == IF clientId \in DOMAIN m THEN Len(m[clientId]) ELSE 0
                 loop == [i \in 1..n |-> "WindowSize"]
             IN IF op = "IsRequestAllowed"
                THEN loop \o <<"Limit">>
                ELSE loop \o <<"Limit", "WindowSize">>
      [] strategy.kind = "TokenBucket" ->
             IF clientId \in DOMAIN m
             THEN <<"BucketSize", "RefillRate">>
             ELSE <<"BucketSize", "BucketSize", "RefillRate">>
      [] strategy.kind = "LeakyBucket" -> <<"LeakRate", "BucketSize">>

\* the instance with one field written, or left as it is
WrittenOnce(s, field) ==
    {t \in Strategies :
        t.kind = s.kind /\ \A f \in DOMAIN s : f # field => t[f] = s[f]}

\* what the reads of a section find when it starts with the fields at s
\* and at most budget writes land between its reads; a write that lands
\* in the section counts where it is first read
RECURSIVE SeenFrom(_, _, _)
SeenFrom(s, fields, budget) ==
    IF Len(fields) <= 1
    THEN {<<s>>}
    ELSE UNION {{<<s>> \o rest :
                    rest \in SeenFrom(t, Tail(fields),
                                      IF t = s THEN budget ELSE budget - 1)} :
                t \in IF budget > 0 THEN WrittenOnce(s, fields[2]) ELSE {s}}

\* the writes that landed between the reads of the section
RECURSIVE Written(_)
Written(seen) ==
    IF Len(seen) <= 1
    THEN 0
    ELSE (IF seen[1] = seen[2] THEN 0 ELSE 1) + Written(Tail(seen))

\* the goroutine takes the mutex, runs IsRequestAllowed's critical section,
\* unlocks and returns; the call is made for a request through the
\* middleware and, when traced, entered in the history of the client with
\* the response to the request; r is what the call returns and leaves in
\* the clients map, s the same for the shadow map, resp the response
Locked_IsRequestAllowed(call, traced, maxCalls) ==
    /\ ~panicked
    /\ call \in BagToSet(pending)
    /\ call.op = "IsRequestAllowed"
    /\ \E seen \in SeenFrom(strategy,
                            ReadFields(call.op, clients, call.clientId),
                            maxCalls - TotalCalls) :
       \E r \in {IsRequestAllowed(seen, clients, call.clientId, call.now)},
          s \in {IsRequestAllowed(seen, shadow, call.clientId, call.now)},
          resp \in {RateLimitingMiddleware(seen, clients, call.clientId,
                                           call.now)} :
       LET c == call.clientId
           now == call.now
       IN /\ strategy' = seen[Len(seen)]
          /\ writes' = writes + Written(seen)
          /\ clients' = r.clients
          /\ shadow' = s.clients
          /\ admitted' = IF r.ret
                         THEN [admitted EXCEPT ![c] = @ (+) SetToBag({now})]
                         ELSE admitted
          /\ hist' = IF traced
                     THEN [hist EXCEPT ![c] = Append(@,
                        [op |-> "IsRequestAllowed", now |-> now,
                         allowed |-> r.ret, wait |-> 0, panic |-> FALSE,
                         moved |-> Moved(seen, clients, c, now),
                         windowStart |-> WindowStartSeen(clients, c, now),
                         shadow |-> s.ret,
                         post |-> Record(r.clients, c),
                         status |-> resp.status, next |-> resp.next,
                         retryAfter |-> resp.retryAfter])]
                     ELSE hist
    /\ done' = done + 1
    /\ pending' = Return(call)
    /\ UNCHANGED <<clock, panicked>>

DoIsRequestAllowed(call) == Locked_IsRequestAllowed(call, TRUE, MaxCalls)

\* the goroutine takes the mutex, runs RetryAfter's critical section,
\* unlocks and returns, or panics: the deferred Unlock runs and the panic,
\* which nothing in the repository recovers, ends the program
DoRetryAfter(call) ==
    /\ ~panicked
    /\ call \in BagToSet(pending)
    /\ call.op = "RetryAfter"
    /\ \E seen \in SeenFrom(strategy,
                            ReadFields(call.op, clients, call.clientId),
                            MaxCalls - TotalCalls) :
       \E r \in {RetryAfter(seen, clients, call.clientId, call.now)} :
       LET c == call.clientId
           now == call.now
       IN /\ strategy' = seen[Len(seen)]
          /\ writes' = writes + Written(seen)
          /\ clients' = r.clients
          /\ hist' = [hist EXCEPT ![c] = Append(@,
                        [op |-> "RetryAfter", now |-> now,
                         allowed |-> FALSE,
                         wait |-> IF Panics(r) THEN 0 ELSE r.ret,
                         panic |-> Panics(r),
                         moved |-> r.clients # clients,
                         windowStart |-> WindowStartSeen(clients, c, now),
                         shadow |-> FALSE,
                         post |-> Record(r.clients, c),
                         status |-> 0, next |-> 0, retryAfter |-> <<>>])]
          /\ panicked' = Panics(r)
    /\ done' = done + 1
    /\ pending' = Return(call)
    /\ UNCHANGED <<clock, shadow, admitted>>

\* the caller holding the instance assigns one of its exported fields
\* (s.LeakRate = 2.0): Limit, WindowSize, RefillRate, LeakRate and
\* BucketSize are plain fields of the struct, written without the mutex;
\* the client records are left as they are; at most maxCalls operations
\* are made on the instance
SetFieldOf(strategies, maxCalls) ==
    /\ ~panicked
    /\ TotalCalls < maxCalls
    /\ \E s \in strategies :
          /\ s.kind = strategy.kind
          /\ Cardinality({f \in DOMAIN s : s[f] # strategy[f]}) = 1
          /\ strategy' = s
    /\ writes' = writes + 1
    /\ UNCHANGED <<clients, clock, pending, hist, shadow, admitted, done,
                   panicked>>

SetField == SetFieldOf(Strategies, MaxCalls)

\* no exported field of the instance was written since its construction:
\* its parameters are those given to the constructor
Unwritten == writes = 0

Next ==
    \/ Tick
    \/ SetField
    \/ \E op \in Ops, c \in Clients : Invoke(op, c)
    \/ \E call \in BagToSet(pending) : DoIsRequestAllowed(call)
    \/ \E call \in BagToSet(pending) : DoRetryAfter(call)

Spec == Init /\ [][Next]_vars

\* ---- reading the history -------------------------------------------------
\* the record the client's i-th call found: the one its previous call left
\* (only the client's own calls write its record), or nothing
Pre(c, i) == IF i = 1 THEN <<>> ELSE hist[c][i - 1].post

\* the indices of the client's IsRequestAllowed calls, in lock order
AllowedCalls(c) ==
    {i \in 1..Len(hist[c]) : hist[c][i].op = "IsRequestAllowed"}

NCalls(c) == Cardinality(AllowedCalls(c))

Admitted(c) == Cardinality({i \in AllowedCalls(c) : hist[c][i].allowed})

\* no call of the client rolled a window over, expired, refilled or leaked
Undisturbed(c) == \A i \in 1..Len(hist[c]) : ~hist[c][i].moved

\* the number of requests a fresh client can be admitted
Capacity ==
    CASE strategy.kind \in {"FixedWindow", "SlidingWindow"} -> strategy.Limit
      [] strategy.kind = "TokenBucket" -> strategy.BucketSize \div Scale
      [] strategy.kind = "LeakyBucket" ->
             (strategy.BucketSize + Scale - 1) \div Scale

\* two calls of the client overlapped: one took the lock after a call that
\* read the clock later than it did
Overtaken(c) ==
    \E i, j \in 1..Len(hist[c]) : i < j /\ hist[c][j].now < hist[c][i].now

\* ---- C1 ------------------------------------------------------------------
\* C1: on every strategy, when more callers than the capacity c call
\* IsRequestAllowed for one client, in any interleaving, and no call of the
\* burst rolls the window over, expires a timestamp, refills or leaks, then
\* exactly c of the calls are admitted.
C1_BurstAdmitsExactlyCapacity ==
    Unwritten =>
      ( \A c \in Clients :
            (Undisturbed(c) /\ NCalls(c) > Capacity) => Admitted(c) = Capacity )

\* a burst of more calls than the capacity, by overlapping callers that took
\* the lock in another order than they read the clock
C1_Witness ==
    /\ Unwritten
    /\ \E c \in Clients :
           /\ Undisturbed(c)
           /\ Capacity >= 1
           /\ NCalls(c) > Capacity
           /\ Admitted(c) = Capacity
           /\ Overtaken(c)

\* ---- C2 ------------------------------------------------------------------
\* every call of the client so far is an IsRequestAllowed call made at the
\* instant of the first one
Steady(c) ==
    \A i \in 1..Len(hist[c]) :
        /\ hist[c][i].op = "IsRequestAllowed"
        /\ hist[c][i].now = hist[c][1].now

\* C2: with limit or bucketSize k and no time elapsed between the calls of
\* a fresh client, the i-th call is allowed exactly when i <= k: the first
\* k calls return true and the (k+1)-th returns false.
C2_FirstKAllowedThenDenied ==
    Unwritten =>
      ( \A c \in Clients :
            Steady(c) =>
                \A i \in 1..Len(hist[c]) : hist[c][i].allowed = (i <= Capacity) )

\* k = 2: two calls allowed and the third denied, at one instant
C2_Witness ==
    /\ Unwritten
    /\ \E c \in Clients :
           /\ Steady(c)
           /\ Capacity = 2
           /\ Len(hist[c]) = 3
           /\ hist[c][1].allowed /\ hist[c][2].allowed /\ ~hist[c][3].allowed

\* ---- C3 ------------------------------------------------------------------
\* the client's admitted calls whose instants lie in (t - WindowSize, t]
AdmittedInWindow(c, t) ==
    {i \in AllowedCalls(c) :
        /\ hist[c][i].allowed
        /\ hist[c][i].now > t - strategy.WindowSize
        /\ hist[c][i].now <= t}

\* C3: SlidingWindow keeps a rolling count: for every client and every
\* instant t, at most Limit admitted requests have their instants in the
\* trailing window (t - WindowSize, t].
C3_SlidingWindowRollingCount ==
    Unwritten =>
      ( strategy.kind = "SlidingWindow" =>
            \A c \in Clients, t \in 0..MaxTime :
                Cardinality(AdmittedInWindow(c, t)) <= strategy.Limit )

\* ---- C4 ------------------------------------------------------------------
\* a step that completes a call for client a leaves every other record alone
FrameOfOtherClients ==
    \A a \in Clients :
        hist'[a] # hist[a] =>
            \A b \in Clients \ {a} : Record(clients', b) = Record(clients, b)

\* every undisturbed client has been admitted up to its own capacity
EachUpToCapacity ==
    \A c \in Clients :
        Undisturbed(c) => Admitted(c) = Min(NCalls(c), Capacity)

\* C4: distinct clients never interfere: a call for one client leaves the
\* record of every other client unchanged, and under any interleaving each
\* client is admitted up to its own full capacity.
C4_ClientsDoNotInterfere ==
    [][Unwritten' => (FrameOfOtherClients /\ EachUpToCapacity')]_vars

\* both clients hold a record; one went over its capacity and was admitted
\* exactly that much, the other, invoked between the first one's calls, got
\* its own full capacity
C4_Witness ==
    /\ Unwritten
    /\ \E a, b \in Clients :
           /\ a # b
           /\ Capacity = 1
           /\ Undisturbed(a) /\ Undisturbed(b)
           /\ Len(hist[a]) = 2 /\ NCalls(a) = 2 /\ Admitted(a) = 1
           /\ Len(hist[b]) = 1 /\ NCalls(b) = 1 /\ Admitted(b) = 1
           /\ hist[a][1].now < hist[b][1].now
           /\ hist[b][1].now < hist[a][2].now
           /\ a \in DOMAIN clients /\ b \in DOMAIN clients

\* ---- C5 ------------------------------------------------------------------
\* C5: every TokenBucket client record has 0 <= Tokens <= BucketSize.
C5_TokensWithinBucket ==
    Unwritten =>
      ( strategy.kind = "TokenBucket" =>
            \A c \in DOMAIN clients :
                /\ 0 <= clients[c].Tokens
                /\ clients[c].Tokens <= strategy.BucketSize )

\* ---- C6 ------------------------------------------------------------------
\* C6: every LeakyBucket client record has 0 <= QueuedRequests <= BucketSize.
C6_QueuedWithinBucket ==
    Unwritten =>
      ( strategy.kind = "LeakyBucket" =>
            \A c \in DOMAIN clients :
                /\ 0 <= clients[c].QueuedRequests
                /\ clients[c].QueuedRequests <= strategy.BucketSize )

\* ---- C7 ------------------------------------------------------------------
\* C7: at every instant at which IsRequestAllowed would return true for a
\* client, RetryAfter at that instant returns 0.
C7_RetryAfterZeroWhenAllowed ==
    Unwritten =>
      ( HasRetryAfter =>
            \A c \in Clients, t \in 0..MaxTime :
                IsRequestAllowed(Still, clients, c, t).ret
                    => RetryAfter(Still, clients, c, t).ret = 0 )

\* ---- C8 ------------------------------------------------------------------
\* C8: when RetryAfter returned d at instant t and the client's next call is
\* an IsRequestAllowed at instant t + d, that call is allowed (Limit >= 1).
C8_RetryAfterWaitSuffices ==
    Unwritten =>
      ( (HasRetryAfter /\ strategy.Limit >= 1) =>
            \A c \in Clients :
                \A i \in 2..Len(hist[c]) :
                    ( /\ hist[c][i - 1].op = "RetryAfter"
                      /\ hist[c][i].op = "IsRequestAllowed"
                      /\ hist[c][i].now = hist[c][i - 1].now + hist[c][i - 1].wait )
                        => hist[c][i].allowed )

\* ---- C9 ------------------------------------------------------------------
\* C9: RetryAfter never changes an admission: every IsRequestAllowed call
\* returns what it returns in the same run with the RetryAfter calls left
\* out.
C9_RetryAfterChangesNoAdmission ==
    Unwritten =>
      ( \A c \in Clients :
            \A i \in AllowedCalls(c) : hist[c][i].allowed = hist[c][i].shadow )

\* ---- C10 -----------------------------------------------------------------
\* the client's IsRequestAllowed calls, in lock order
AllowedSeq(c) ==
    LET RECURSIVE Pick(_)
        Pick(s) == IF s = <<>> THEN <<>>
                   ELSE IF Head(s).op = "IsRequestAllowed"
                        THEN <<Head(s)>> \o Pick(Tail(s))
                        ELSE Pick(Tail(s))
    IN Pick(hist[c])

\* the call came later than WindowStart + WindowSize of the client's record
PastWindow(e) == e.now > e.windowStart + strategy.WindowSize

\* a run of one FixedWindow client long enough for three windows in a row,
\* in each of them Limit = 2 calls and one more; the calls come one after
\* the other, as in TestMultipleWindowRollovers, and the field writes of
\* the run are made among its first MaxCalls operations
RolloverTime == 4
RolloverCalls == 9

FixedWindows ==
    {NewFixedWindowStrategy(l, w) : l \in 0..MaxLimit, w \in 1..MaxWindow}

InitRollover == InitOf(FixedWindows)

RolloverTick == TickTo(RolloverTime)

RolloverInvoke(clientId) ==
    InvokeBy("IsRequestAllowed", clientId, 1, RolloverCalls)

RolloverSetField == SetFieldOf(Strategies, MaxCalls)

RolloverIsRequestAllowed(call) ==
    Locked_IsRequestAllowed(call, TRUE, MaxCalls)

NextRollover ==
    \/ RolloverTick
    \/ RolloverSetField
    \/ RolloverInvoke("userA")
    \/ \E call \in BagToSet(pending) : RolloverIsRequestAllowed(call)

SpecRollover == InitRollover /\ [][NextRollover]_vars

\* C10: FixedWindow recovers its full capacity after every window: a call
\* later than WindowStart + WindowSize resets the counter, and counting from
\* that call exactly Limit calls are allowed before the next denial, in
\* every window, over any number of consecutive windows.
C10_FixedWindowRecovers ==
    Unwritten =>
      ( strategy.kind = "FixedWindow" =>
            \A c \in Clients :
                LET calls == AllowedSeq(c)
                IN \A i \in 1..Len(calls) :
                       PastWindow(calls[i]) =>
                           \A j \in i..Len(calls) :
                               (\A k \in (i + 1)..j : ~PastWindow(calls[k]))
                                   => calls[j].allowed = (j - i + 1 <= strategy.Limit) )

\* the calls of the sequence from the i-th on are Limit allowed calls in
\* one window and a denied one
FullWindow(calls, i) ==
    /\ i + strategy.Limit <= Len(calls)
    /\ \A k \in (i + 1)..(i + strategy.Limit) : ~PastWindow(calls[k])
    /\ \A k \in i..(i + strategy.Limit - 1) : calls[k].allowed
    /\ ~calls[i + strategy.Limit].allowed

\* three windows in a row with Limit = 2: the client exhausts its limit and
\* is denied, comes back after the window, is allowed two calls again and
\* denied, and once more after the second window
C10_Witness ==
    /\ Unwritten
    /\ strategy.kind = "FixedWindow"
    /\ strategy.Limit = 2
    /\ \E c \in Clients :
          LET calls == AllowedSeq(c)
          IN /\ Len(calls) = 9
             /\ FullWindow(calls, 1)
             /\ PastWindow(calls[4]) /\ FullWindow(calls, 4)
             /\ PastWindow(calls[7]) /\ FullWindow(calls, 7)

\* ---- C11 -----------------------------------------------------------------
\* a longer run of one FixedWindow client: four windows, and callers that
\* stay between their clock read and the lock while the windows roll over
BurstTime == 6
BurstCalls == 8
BurstGoroutines == 4
BurstLimit == 2
BurstWindow == 1

InitBurst == InitOf({NewFixedWindowStrategy(BurstLimit, BurstWindow)})

BurstTick == TickTo(BurstTime)

BurstInvoke(clientId) ==
    InvokeBy("IsRequestAllowed", clientId, BurstGoroutines, BurstCalls)

\* the critical section of IsRequestAllowed; of the history only the
\* admitted instants and the number of calls are kept
BurstIsRequestAllowed(call) ==
    Locked_IsRequestAllowed(call, FALSE, BurstCalls)

BurstSetField == SetFieldOf(Strategies, BurstCalls)

NextBurst ==
    \/ BurstTick
    \/ BurstSetField
    \/ BurstInvoke("userA")
    \/ \E call \in BagToSet(pending) : BurstIsRequestAllowed(call)

SpecBurst == InitBurst /\ [][NextBurst]_vars

\* the number of the client's admitted requests with instants in lo..hi
AdmittedWithin(c, lo, hi) ==
    LET RECURSIVE Sum(_)
        Sum(t) == IF t > hi THEN 0 ELSE CopiesIn(t, admitted[c]) + Sum(t + 1)
    IN Sum(lo)

\* C11: FixedWindow's boundary burst is bounded: for every client and every
\* time span [t, t + WindowSize], at most 2 x Limit admitted requests have
\* their instants in the span.
C11_FixedWindowBurstBounded ==
    Unwritten =>
      ( strategy.kind = "FixedWindow" =>
            \A c \in Clients, t \in 0..clock :
                AdmittedWithin(c, t, t + strategy.WindowSize) <= 2 * strategy.Limit )

\* ---- C12 -----------------------------------------------------------------
\* a run of one TokenBucket client long enough to drain a bucket of two
\* tokens, wait, and call twice more
RefillTime == 4
RefillCalls == 5

TokenBuckets ==
    {NewTokenBucketStrategy(r, b * Scale) : r \in 0..MaxRate, b \in 1..MaxBucket}

InitRefill == InitOf(TokenBuckets)

RefillTick == TickTo(RefillTime)

RefillInvoke(clientId) ==
    InvokeBy("IsRequestAllowed", clientId, Cardinality(Goroutines), RefillCalls)

RefillSetField == SetFieldOf(Strategies, RefillCalls)

RefillIsRequestAllowed(call) ==
    Locked_IsRequestAllowed(call, TRUE, RefillCalls)

NextRefill ==
    \/ RefillTick
    \/ RefillSetField
    \/ RefillInvoke("userA")
    \/ \E call \in BagToSet(pending) : RefillIsRequestAllowed(call)

SpecRefill == InitRefill /\ [][NextRefill]_vars

\* the whole tokens in the bucket when a call at instant now finds record rec
TokensAt(rec, now) ==
    Min(strategy.BucketSize,
        rec.Tokens + (now - rec.LastRefill) * strategy.RefillRate) \div Scale

\* the call finds the bucket drained below one token, and no time before
\* the last refill
Drained(c, i) ==
    /\ Pre(c, i) # <<>>
    /\ 0 <= Pre(c, i)[1].Tokens /\ Pre(c, i)[1].Tokens < Scale
    /\ hist[c][i].now >= Pre(c, i)[1].LastRefill

\* C12: TokenBucket refill is continuous: when a call finds the bucket
\* drained to t0 < 1 tokens, a time e after the last refill, then of the
\* calls made at that instant one after the other exactly
\* floor(min(BucketSize, t0 + e x RefillRate)) are allowed, and the next is
\* denied.
C12_TokenBucketRefillContinuous ==
    Unwritten =>
      ( strategy.kind = "TokenBucket" =>
            \A c \in Clients :
                \A i \in 1..Len(hist[c]) :
                    Drained(c, i) =>
                        \A j \in i..Len(hist[c]) :
                            (\A k \in i..j : hist[c][k].now = hist[c][i].now)
                                => hist[c][j].allowed
                                     = (j - i + 1
                                          <= TokensAt(Pre(c, i)[1],
                                                      hist[c][i].now)) )

\* a bucket of two tokens is drained, one token and a half regenerate, one
\* call is allowed and the call right after it is denied
C12_Witness ==
    /\ Unwritten
    /\ strategy.kind = "TokenBucket"
    /\ \E c \in Clients :
          /\ Len(hist[c]) = 4
          /\ hist[c][1].allowed /\ hist[c][2].allowed
          /\ Drained(c, 3)
          /\ Pre(c, 3)[1].Tokens = 0
          /\ 2 * (hist[c][3].now - Pre(c, 3)[1].LastRefill)
                  * strategy.RefillRate = 3 * Scale
          /\ hist[c][4].now = hist[c][3].now
          /\ hist[c][3].allowed /\ ~hist[c][4].allowed

\* ---- C13 -----------------------------------------------------------------
\* the client's requests admitted before its i-th call whose instants t
\* have now - t < WindowSize, now the instant of the i-th call
StillInWindow(c, i) ==
    {k \in 1..(i - 1) :
        /\ hist[c][k].op = "IsRequestAllowed"
        /\ hist[c][k].allowed
        /\ hist[c][i].now - hist[c][k].now < strategy.WindowSize}

\* C13: SlidingWindow.IsRequestAllowed at instant now returns true exactly
\* when fewer than Limit of the client's admitted requests have instants t
\* with now - t < WindowSize.
C13_SlidingWindowFreesOldest ==
    Unwritten =>
      ( strategy.kind = "SlidingWindow" =>
            \A c \in Clients :
                \A i \in AllowedCalls(c) :
                    hist[c][i].allowed
                        = (Cardinality(StillInWindow(c, i)) < strategy.Limit) )

\* ---- C14 -----------------------------------------------------------------
\* the number of the client's requests admitted before its i-th call
AdmittedBefore(c, i) ==
    Cardinality({k \in 1..(i - 1) : hist[c][k].allowed})

\* C14: LeakyBucket with LeakRate = 0 never frees capacity: once BucketSize
\* requests of a client have been admitted, every later IsRequestAllowed
\* call of the client returns false, whatever time has elapsed.
C14_NoLeakNeverFrees ==
    Unwritten =>
      ( (strategy.kind = "LeakyBucket" /\ strategy.LeakRate = 0) =>
            \A c \in Clients :
                \A i \in AllowedCalls(c) :
                    AdmittedBefore(c, i) * Scale >= strategy.BucketSize
                        => ~hist[c][i].allowed )

\* a bucket of one request without leak: admitted once, then denied one
\* tick later and again two ticks later
C14_Witness ==
    /\ Unwritten
    /\ strategy.kind = "LeakyBucket"
    /\ strategy.LeakRate = 0
    /\ strategy.BucketSize = Scale
    /\ \E c \in Clients :
          /\ Len(hist[c]) = 3
          /\ hist[c][1].allowed /\ ~hist[c][2].allowed /\ ~hist[c][3].allowed
          /\ hist[c][2].now > hist[c][1].now
          /\ hist[c][3].now > hist[c][2].now

\* ---- C15 -----------------------------------------------------------------
\* the queue a call at instant now finds after the leak since LastLeak
LeakedLevel(rec, now) ==
    Max(0, rec.QueuedRequests - (now - rec.LastLeak) * strategy.LeakRate)

\* the record an IsRequestAllowed call works on: the stored one, or the
\* one it creates for a client it has not seen
FoundByCall(c, i) ==
    IF Pre(c, i) # <<>> THEN Pre(c, i)[1]
    ELSE [QueuedRequests |-> 0, LastLeak |-> hist[c][i].now]

\* C15: LeakyBucket.IsRequestAllowed at instant now returns true if and
\* only if max(0, queued - (now - lastLeak) x LeakRate) < BucketSize; an
\* admission leaves queued at the leaked level plus exactly one, a denial at
\* the leaked level, and every call leaves lastLeak = now.
C15_LeakyBucketAdmitsBelowCapacity ==
    Unwritten =>
      ( strategy.kind = "LeakyBucket" =>
            \A c \in Clients :
                \A i \in AllowedCalls(c) :
                    LET e == hist[c][i]
                        level == LeakedLevel(FoundByCall(c, i), e.now)
                    IN /\ e.allowed = (level < strategy.BucketSize)
                       /\ e.post[1].QueuedRequests
                            = IF e.allowed THEN level + Scale ELSE level
                       /\ e.post[1].LastLeak = e.now )

\* a full bucket admits again after a partial leak: the queue was at
\* BucketSize or more, part of it leaked, and the call was admitted
C15_Witness ==
    /\ Unwritten
    /\ strategy.kind = "LeakyBucket"
    /\ \E c \in Clients :
          \E i \in AllowedCalls(c) :
              /\ Pre(c, i) # <<>>
              /\ Pre(c, i)[1].QueuedRequests >= strategy.BucketSize
              /\ LeakedLevel(Pre(c, i)[1], hist[c][i].now) > 0
              /\ hist[c][i].now > Pre(c, i)[1].LastLeak
              /\ hist[c][i].allowed

\* ---- C16 -----------------------------------------------------------------
\* C16: FixedWindow.RetryAfter is the remaining time of the current
\* window (Limit >= 1): for a client at its limit and every instant t at
\* which IsRequestAllowed would deny it, RetryAfter returns
\* WindowStart + WindowSize - t and that is strictly positive; at every
\* instant after WindowStart + WindowSize it returns 0.
C16_FixedWindowRetryAfterRemaining ==
    Unwritten =>
      ( (strategy.kind = "FixedWindow" /\ strategy.Limit >= 1) =>
            \A c \in DOMAIN clients, t \in 0..MaxTime :
                LET windowEnd == clients[c].WindowStart + strategy.WindowSize
                    wait == RetryAfter(Still, clients, c, t).ret
                IN /\ ( /\ clients[c].RequestCount >= strategy.Limit
                        /\ ~IsRequestAllowed(Still, clients, c, t).ret )
                          => (wait = windowEnd - t /\ wait > 0)
                   /\ t > windowEnd => wait = 0 )

\* ---- C17 -----------------------------------------------------------------
\* C17: RetryAfter never returns a negative duration: in every reachable
\* state of a FixedWindow or a SlidingWindow, RetryAfter is >= 0 for every
\* client id and every instant, and every completed RetryAfter call, also
\* of a caller that read the clock before it got the lock, returned a
\* duration >= 0.
C17_RetryAfterNeverNegative ==
    Unwritten =>
      ( strategy.kind \in {"FixedWindow", "SlidingWindow"} =>
            /\ \A c \in Clients, t \in 0..MaxTime :
                   RetryAfter(Still, clients, c, t).ret >= 0
            /\ \A c \in Clients :
                   \A i \in 1..Len(hist[c]) :
                       hist[c][i].op = "RetryAfter" => hist[c][i].wait >= 0 )

\* a RetryAfter caller that read the clock before the client's window
\* started got the lock after the call that started it
C17_Witness ==
    /\ Unwritten
    /\ strategy.kind = "FixedWindow"
    /\ \E c \in Clients :
          \E i \in 2..Len(hist[c]) :
              /\ hist[c][i].op = "RetryAfter"
              /\ hist[c][i].now < hist[c][i - 1].now
              /\ hist[c][i].now < hist[c][i].windowStart
              /\ hist[c][i].wait > strategy.WindowSize

\* ---- C18 -----------------------------------------------------------------
\* the callers of a LeakyBucket, RetryAfter included
LeakyBuckets ==
    {NewLeakyBucketStrategy(r, b * Scale) : r \in 0..MaxRate, b \in 1..MaxBucket}

InitLeak == InitOf(LeakyBuckets)

LeakInvoke(op, clientId) ==
    InvokeBy(op, clientId, Cardinality(Goroutines), MaxCalls)

NextLeak ==
    \/ Tick
    \/ SetField
    \/ \E op \in Ops, c \in Clients : LeakInvoke(op, c)
    \/ \E call \in BagToSet(pending) : DoIsRequestAllowed(call)
    \/ \E call \in BagToSet(pending) : DoRetryAfter(call)

SpecLeak == InitLeak /\ [][NextLeak]_vars

\* C18: LeakyBucket.RetryAfter recomputes from the current state: with
\* queued the stored queue less the leak since lastLeak, it returns 0 if
\* queued < BucketSize and otherwise, when LeakRate > 0,
\* (queued - BucketSize + 1) / LeakRate (in ticks, rounded up).
C18_LeakyBucketRetryAfterRecomputes ==
    Unwritten =>
      ( strategy.kind = "LeakyBucket" =>
            \A c \in Clients :
                \A i \in 1..Len(hist[c]) :
                    LET e == hist[c][i]
                        queued == LeakedLevel(Pre(c, i)[1], e.now)
                        over == queued - strategy.BucketSize + Scale
                    IN (e.op = "RetryAfter" /\ Pre(c, i) # <<>>) =>
                           /\ queued < strategy.BucketSize => e.wait = 0
                           /\ ( /\ queued >= strategy.BucketSize
                                /\ strategy.LeakRate > 0 )
                                 => /\ e.wait * strategy.LeakRate >= over
                                    /\ (e.wait - 1) * strategy.LeakRate < over )

\* a full bucket asked at once answers a positive wait; asked again after
\* it has leaked below its size it answers 0
C18_Witness ==
    /\ Unwritten
    /\ strategy.kind = "LeakyBucket"
    /\ strategy.LeakRate > 0
    /\ \E c \in Clients :
          /\ Len(hist[c]) = 3
          /\ hist[c][1].allowed
          /\ hist[c][2].op = "RetryAfter" /\ hist[c][2].wait > 0
          /\ hist[c][3].op = "RetryAfter" /\ hist[c][3].wait = 0
          /\ Pre(c, 3)[1].QueuedRequests >= strategy.BucketSize
          /\ hist[c][3].now > hist[c][2].now

\* ---- C19 -----------------------------------------------------------------
\* what the strategy's RetryAfter answers for the client right after the
\* call, at the instant of the call
WaitAfter(c, e) ==
    RetryAfter(Still, [x \in {c} |-> e.post[1]], c, e.now).ret

\* C19: when the strategy denies a request the middleware responds 429
\* and, if the strategy's RetryAfter for the client is strictly positive,
\* sets the Retry-After header to that wait in whole seconds (ticks); if
\* the wait is zero the header is not set.
C19_DeniedRespondsRetryAfter ==
    Unwritten =>
      ( HasRetryAfter =>
            \A c \in Clients :
                \A i \in AllowedCalls(c) :
                    LET e == hist[c][i]
                    IN ~e.allowed =>
                           /\ e.status = StatusTooManyRequests
                           /\ e.retryAfter = IF WaitAfter(c, e) > 0
                                             THEN <<WaitAfter(c, e)>>
                                             ELSE <<>> )

\* ---- C20 -----------------------------------------------------------------
\* C20: when the strategy allows a request the middleware forwards it: the
\* next handler runs exactly once, the response is the handler's (200), not
\* a 429, and no Retry-After header is set; for a denied request the next
\* handler never runs.
C20_AllowedForwardedOnce ==
    \A c \in Clients :
        \A i \in AllowedCalls(c) :
            LET e == hist[c][i]
            IN /\ e.allowed =>
                    /\ e.next = 1
                    /\ e.status = StatusOK
                    /\ e.status # StatusTooManyRequests
                    /\ e.retryAfter = <<>>
               /\ ~e.allowed => e.next = 0

\* a client one of whose requests was forwarded and another one denied
C20_Witness ==
    \E c \in Clients :
        \E i, j \in AllowedCalls(c) :
            /\ hist[c][i].allowed /\ hist[c][i].next = 1
            /\ ~hist[c][j].allowed /\ hist[c][j].next = 0
            /\ hist[c][j].status = StatusTooManyRequests

\* ---- C21 -----------------------------------------------------------------
\* the two window strategies, whose RetryAfter is in the source, with the
\* callers of Spec
Windows ==
    {NewFixedWindowStrategy(l, w) : l \in 0..MaxLimit, w \in 1..MaxWindow}
    \cup {NewSlidingWindowStrategy(l, w) : l \in 0..MaxLimit, w \in 1..MaxWindow}

InitWindows == InitOf(Windows)

SpecWindows == InitWindows /\ [][Next]_vars

\* the client ids for which an IsRequestAllowed call has completed
Requested == {c \in Clients : AllowedCalls(c) # {}}

\* C21: a client record exists if and only if the client has made a
\* request: the key set of the clients map is the set of ids for which
\* IsRequestAllowed has been called; RetryAfter for an id without a record
\* returns 0 and creates none; no call removes a record.
C21_RecordIffRequested ==
    /\ DOMAIN clients = Requested
    /\ \A c \in Clients :
           \A i \in 1..Len(hist[c]) :
               /\ ( /\ hist[c][i].op = "RetryAfter"
                    /\ Pre(c, i) = <<>> )
                     => (hist[c][i].wait = 0 /\ hist[c][i].post = <<>>)
               /\ Pre(c, i) # <<>> => hist[c][i].post # <<>>

\* RetryAfter was called twice for an id never seen and left no record,
\* while the other client, which made a request, has one
C21_Witness ==
    \E a, b \in Clients :
        /\ a # b
        /\ Len(hist[a]) = 2
        /\ hist[a][1].op = "RetryAfter" /\ hist[a][2].op = "RetryAfter"
        /\ a \notin DOMAIN clients
        /\ Len(hist[b]) = 1
        /\ b \in DOMAIN clients

\* ---- C22 -----------------------------------------------------------------
\* C22: in every reachable state the stored sequence of every
\* SlidingWindow client is ordered oldest first, so that its first element
\* is the oldest admitted instant still in the window.
C22_SlidingWindowOldestFirst ==
    Unwritten =>
      ( strategy.kind = "SlidingWindow" =>
            \A c \in DOMAIN clients :
                \A i, j \in 1..Len(clients[c]) :
                    i < j => clients[c][i] <= clients[c][j] )

\* ---- C23 -----------------------------------------------------------------
\* C23: window occupancy never exceeds the limit: in every reachable state
\* every FixedWindow record has 0 <= RequestCount <= Limit and every
\* SlidingWindow sequence holds at most Limit timestamps.
C23_OccupancyWithinLimit ==
    Unwritten =>
      ( \A c \in DOMAIN clients :
            /\ strategy.kind = "FixedWindow" =>
                   /\ 0 <= clients[c].RequestCount
                   /\ clients[c].RequestCount <= strategy.Limit
            /\ strategy.kind = "SlidingWindow" =>
                   Len(clients[c]) <= strategy.Limit )

\* a SlidingWindow client is full: its last call was denied, with Limit
\* timestamps stored, after overlapping callers took the lock in another
\* order than they read the clock
C23_Witness ==
    /\ Unwritten
    /\ strategy.kind = "SlidingWindow"
    /\ strategy.Limit >= 1
    /\ \E c \in DOMAIN clients :
          /\ Len(clients[c]) = strategy.Limit
          /\ Len(hist[c]) = strategy.Limit + 1
          /\ ~hist[c][Len(hist[c])].allowed
          /\ hist[c][Len(hist[c])].op = "IsRequestAllowed"
          /\ Overtaken(c)

\* ---- C24 -----------------------------------------------------------------
\* callers that come one after the other: one call in flight, so that the
\* instants of the calls never decrease
SeqTime == 3
SeqCalls == 4

InitSeq == InitOf(Strategies)

SeqTick == TickTo(SeqTime)

SeqInvoke(clientId) == InvokeBy("IsRequestAllowed", clientId, 1, SeqCalls)

SeqSetField == SetFieldOf(Strategies, SeqCalls)

SeqIsRequestAllowed(call) == Locked_IsRequestAllowed(call, TRUE, SeqCalls)

NextSeq ==
    \/ SeqTick
    \/ SeqSetField
    \/ \E c \in Clients : SeqInvoke(c)
    \/ \E call \in BagToSet(pending) : SeqIsRequestAllowed(call)

SpecSeq == InitSeq /\ [][NextSeq]_vars

\* the instant of the client's last call, 0 before its first
LastInstant(c) ==
    IF hist[c] = <<>> THEN 0 ELSE hist[c][Len(hist[c])].now

\* a denied call at any instant t from now on changes nothing for a call
\* at any instant t2 >= t: its result and the record it leaves are those
\* of the same call without the denied one before it
DeniedCallChangesNothing(c) ==
    \A t \in LastInstant(c)..SeqTime :
        LET d == IsRequestAllowed(Still, clients, c, t)
        IN ~d.ret =>
               \A t2 \in t..SeqTime :
                   IsRequestAllowed(Still, d.clients, c, t2)
                       = IsRequestAllowed(Still, clients, c, t2)

\* what the denied calls made so far did to the record: nothing on a
\* FixedWindow, only the expiry of timestamps on a SlidingWindow
DeniedCallsKeptRecord(c) ==
    \A i \in 2..Len(hist[c]) :
        ~hist[c][i].allowed =>
            /\ strategy.kind = "FixedWindow" => hist[c][i].post = Pre(c, i)
            /\ strategy.kind = "SlidingWindow" =>
                   hist[c][i].post[1] = Filter(Still, Pre(c, i)[1], hist[c][i].now)

\* C24: denied calls never consume capacity or postpone the next
\* admission: on every strategy with capacity >= 1, with calls at
\* non-decreasing instants, a denied IsRequestAllowed call put before a
\* later call changes neither the result of that call nor the record it
\* leaves; a denied FixedWindow call leaves the record as it is and a
\* denied SlidingWindow call appends no timestamp.
C24_DeniedCallsConsumeNothing ==
    Unwritten =>
      ( Capacity >= 1 =>
            \A c \in Clients :
                DeniedCallChangesNothing(c) /\ DeniedCallsKeptRecord(c) )

\* a bucket of one token refilled at half a token per tick: admitted,
\* denied one tick later, admitted again one tick after that, exactly when
\* it would have been without the denied call
C24_Witness ==
    /\ Unwritten
    /\ strategy.kind = "TokenBucket"
    /\ strategy.BucketSize = Scale
    /\ 2 * strategy.RefillRate = Scale
    /\ \E c \in Clients :
          /\ Len(hist[c]) = 3
          /\ hist[c][1].allowed /\ ~hist[c][2].allowed /\ hist[c][3].allowed
          /\ hist[c][2].now = hist[c][1].now + 1
          /\ hist[c][3].now = hist[c][1].now + 2

\* ---- C25 -----------------------------------------------------------------
\* C25: TokenBucket, calls of one client at non-decreasing instants: the
\* number of requests admitted in any interval [t1, t2] is at most
\* bucketSize + refillRate * (t2 - t1); with t1 = t2, at most bucketSize
\* requests are admitted back to back, however long the client was idle.
C25_TokenBucketRateBounded ==
    Unwritten =>
      ( strategy.kind = "TokenBucket" =>
            \A c \in Clients :
                \A t1 \in 0..clock :
                    \A t2 \in t1..clock :
                        AdmittedWithin(c, t1, t2) * Scale
                            <= strategy.BucketSize
                                 + strategy.RefillRate * (t2 - t1) )

\* the bound is met over an interval of positive length with a refill
C25_Witness ==
    /\ Unwritten
    /\ strategy.kind = "TokenBucket"
    /\ strategy.RefillRate > 0
    /\ \E c \in Clients :
          \E t1 \in 0..clock :
              \E t2 \in (t1 + 1)..clock :
                  AdmittedWithin(c, t1, t2) * Scale
                      = strategy.BucketSize
                          + strategy.RefillRate * (t2 - t1)

\* ---- C26 -----------------------------------------------------------------
\* the instant a client record keeps its time from: the start of the
\* window, the last refill, the last leak
TimeOf(rec) ==
    CASE strategy.kind = "FixedWindow" -> rec.WindowStart
      [] strategy.kind = "TokenBucket" -> rec.LastRefill
      [] strategy.kind = "LeakyBucket" -> rec.LastLeak

\* C26: under concurrent callers the time a client record keeps never
\* moves backwards: every call that finds a record of the client leaves
\* windowStart (FixedWindow), lastRefill (TokenBucket) or lastLeak
\* (LeakyBucket) at or after the value it found, and its own instant is
\* not before that value, so the elapsed time it computes is not negative.
C26_TimeNeverMovesBackwards ==
    Unwritten =>
      ( strategy.kind \in {"FixedWindow", "TokenBucket", "LeakyBucket"} =>
            \A c \in Clients :
                \A i \in 2..Len(hist[c]) :
                    Pre(c, i) # <<>> =>
                        /\ TimeOf(hist[c][i].post[1]) >= TimeOf(Pre(c, i)[1])
                        /\ hist[c][i].now >= TimeOf(Pre(c, i)[1]) )

====
